---- MODULE Spec2Model ----
(***************************************************************************)
(* A model of coffee_proxy_reverse (src/main.go): the domain routing table *)
(* (proxyMap under mutex), its loader loadDomains, the directory watcher   *)
(* watchDomains, the dispatching handler proxyHandler, the worker pool and *)
(* the per-client rate limiter registry.                                   *)
(***************************************************************************)
EXTENDS Naturals, Sequences, FiniteSets, TLC

\* ------------------------------------------------------------------ bounds
\* Number of file-system operations the environment performs on ./list_domain.
MaxFsOps == 2
\* Number of request-handling contexts the server runs while the directory changes.
NumLookups == 1
\* Number of request-handling contexts the server runs against a quiet directory.
NumRequests == 3
\* The argument of initWorkerPool (100 in main), scaled down.
NumWorkers == 1
\* Number of errors that can be pending on watcher.Errors.
MaxWatchErrors == 1

\* Number of request-handling contexts run through the whole handler chain.
NumClients == 2
\* config.RateLimiting.BurstLimit (5 by default), scaled down.
BurstLimit == 1
\* config.RateLimiting.RequestsPerSecond.
RequestsPerSecond == 1
\* Clock ticks per second, and how far the clock runs.
TicksPerSecond == 2
MaxTime == 2

\* ------------------------------------------------------------------ values
\* Go's nil pointer (a record, so that it compares with entries, URLs and tasks).
Nil == [nil |-> TRUE]
None == "none"
Absent == "absent"
\* File content that ini.Load rejects.
Garbage == "garbage"
\* backend_url values: a URL url.Parse rejects, and a well-formed one.
BadUrlText == "http://[::1"
GoodUrlText == "http://h1:80"
\* A definition file is modelled by what loadDomains reads from it: Garbage,
\* or the value of proxy.backend_url ("" when the key is missing).
Contents == {Garbage, "", BadUrlText, GoodUrlText}

\* The directory entries: <<base name, extension>>, in ReadDir's (sorted) order.
FileNames == << <<"a", ".conf">>, <<"a", ".txt">>, <<"b", ".conf">> >>
FileIdx == 1..Len(FileNames)
Domains == {"a", "b"}
Requests == 1..NumRequests
\* config.Whitelist.IPs and config.Blacklist.IPs, and the clients that connect.
Whitelist == {"10.0.0.1", "10.0.0.2"}
Blacklist == {"203.0.113.10", "10.0.0.2"}
ClientIPs == {"10.0.0.1", "10.0.0.2", "203.0.113.10", "198.51.100.7"}
\* r.RemoteAddr: <<host, port>>, or a string without a port.
RemoteAddrs == {<< ip, "4711" >> : ip \in ClientIPs} \cup {<< "noport" >>}
NoAddr == << >>
Workers == 1..NumWorkers

VARIABLES
  proc,        \* "running", or how the process ended: "fatal" (log.Fatal), "panic"
  files,       \* ./list_domain: FileIdx -> Contents \cup {Absent}
  fsOps,       \* file-system operations performed so far
  lateAdds,    \* domains whose file became well formed after watcher.Add succeeded (history)
  proxyMap,    \* Domains -> entry or Nil
  mutex,       \* sync.RWMutex: [writer, pending, readers]
  mainPc,      \* position of main
  ldPc,        \* position of the running loadDomains call
  ldCaller,    \* "main" or "watcher"
  ldFiles,     \* the listing ioutil.ReadDir returned (sequence of FileIdx)
  ldIdx,       \* index of the range loop over ldFiles
  ldGen,       \* number of loadDomains passes started (history)
  ldLoaded,    \* domains the current/last pass inserted (history)
  ldMalformed, \* domains whose file ini.Load or url.Parse rejected in that pass (history)
  ldGood,      \* domain -> backend_url of the well-formed definitions that pass read (history)
  ldResult,    \* what the last pass returned: None, "nil", "err"
  wdPc,        \* position of the watchDomains goroutine
  watcher,     \* fsnotify watcher: "none", "open", "watching", "closed"
  events,      \* watcher.Events: sequence of fsnotify ops
  errors,      \* watcher.Errors: number of pending errors
  loopPc,      \* position of the goroutine started in watchDomains
  reqPc,       \* Requests -> position of the handler
  reqHost,     \* Requests -> r.Host
  reqProxy,    \* Requests -> the entry proxyHandler read, or Nil
  reqStatus,   \* Requests -> response status written so far, or 0 if none
  reqTrace,    \* Requests -> the stages the request has run, in order (history)
  reqServed,   \* Requests -> the entry its task forwarded with, or Nil (history)
  workerPool,  \* the channel: sequence of tasks [req, proxy]
  wkPc,        \* Workers -> "recv", "run", "dead"
  wkTask,      \* Workers -> the task being run, or Nil
  lateWrites,  \* requests whose task ran after their handler returned (history)
  limiterLock, \* sync.Mutex: the request holding it, or 0
  rateLimiter, \* the map: client IP -> index into limiters, or 0
  limiters,    \* the rate.Limiter instances created so far: [ip, tokens, last, born]
  reqAddr,     \* Requests -> r.RemoteAddr
  reqLimiter,  \* Requests -> the limiter getRateLimiter returned (index), or 0
  now          \* the clock, in ticks

vars == << proc, files, fsOps, lateAdds, proxyMap, mutex, mainPc, ldPc, ldCaller, ldFiles,
           ldIdx, ldGen, ldLoaded, ldMalformed, ldGood, ldResult, wdPc, watcher,
           events, errors, loopPc, reqPc, reqHost,
           reqProxy, reqStatus, reqTrace, reqServed, workerPool, wkPc, wkTask, lateWrites,
           limiterLock, rateLimiter, limiters, reqAddr, reqLimiter, now >>

fsVars == << files, fsOps, lateAdds >>
ldVars == << ldPc, ldCaller, ldFiles, ldIdx, ldGen, ldLoaded, ldMalformed, ldGood, ldResult >>
watchVars == << wdPc, watcher, events, errors, loopPc >>
reqVars == << reqPc, reqHost, reqProxy, reqStatus, reqTrace, reqServed >>
poolVars == << workerPool, wkPc, wkTask, lateWrites >>
rlVars == << limiterLock, rateLimiter, limiters, reqAddr, reqLimiter, now >>

\* ------------------------------------------------------------------ helpers
Base(i) == FileNames[i][1]
\* filepath.Ext(file.Name())
Ext(i) == FileNames[i][2]
\* What file i may hold: loadDomains never opens a file without the .conf
\* extension, so one content stands for all of them.
ContentsOf(i) == IF Ext(i) = ".conf" THEN Contents ELSE {Garbage}

\* ini.Load(filePath): fails on a missing or unparsable file.
IniLoad(content) ==
  IF content = Absent \/ content = Garbage
    THEN [err |-> TRUE, backend_url |-> ""]
    ELSE [err |-> FALSE, backend_url |-> content]

\* url.Parse(target)
UrlParse(target) ==
  IF target = BadUrlText THEN [url |-> Nil, err |-> TRUE]
  ELSE IF target = "" THEN [url |-> [Scheme |-> "", Host |-> ""], err |-> FALSE]
  ELSE [url |-> [Scheme |-> "http", Host |-> "h1:80"], err |-> FALSE]

\* newReverseProxy(target): the parse error is discarded; the Director closes
\* over url, which is nil when the parse failed.  target and gen are history.
newReverseProxy(target, gen) ==
  [url |-> UrlParse(target).url, target |-> target, gen |-> gen]

\* ioutil.ReadDir(directory): the entries present, sorted by name.
RECURSIVE Listing(_)
Listing(i) ==
  IF i > Len(FileNames) THEN << >>
  ELSE IF files[i] # Absent THEN << i >> \o Listing(i + 1)
  ELSE Listing(i + 1)

Running == proc = "running"

\* ------------------------------------------------------------------ mutex
\* sync.RWMutex.  Lock announces the writer (new readers then wait) and
\* acquires once the active readers have left.
CanRLock == ~mutex.writer /\ ~mutex.pending
CanLock == mutex.readers = {}

\* ------------------------------------------------------------------ Init
Init ==
  /\ proc = "running"
  /\ files \in [FileIdx -> Contents \cup {Absent}]
  /\ files[2] = Absent
  /\ files[3] \in {Absent, GoodUrlText}
  /\ fsOps = 0
  /\ lateAdds = {}
  /\ proxyMap = [d \in Domains |-> Nil]
  /\ mutex = [writer |-> FALSE, pending |-> FALSE, readers |-> {}]
  /\ mainPc = "start"
  /\ ldPc = "idle" /\ ldCaller = None /\ ldFiles = << >> /\ ldIdx = 1
  /\ ldGen = 0 /\ ldLoaded = {} /\ ldMalformed = {}
  /\ ldGood = [d \in Domains |-> None] /\ ldResult = None
  /\ wdPc = "none" /\ watcher = "none" /\ events = << >>
  /\ errors = 0 /\ loopPc = "none"
  /\ reqPc = [r \in Requests |-> "idle"]
  /\ reqHost = [r \in Requests |-> None]
  /\ reqProxy = [r \in Requests |-> Nil]
  /\ reqStatus = [r \in Requests |-> 0]
  /\ reqTrace = [r \in Requests |-> << >>]
  /\ reqServed = [r \in Requests |-> Nil]
  /\ workerPool = << >>
  /\ wkPc = [w \in Workers |-> "none"]
  /\ wkTask = [w \in Workers |-> Nil]
  /\ lateWrites = {}
  /\ limiterLock = 0
  /\ rateLimiter = [ip \in ClientIPs |-> 0]
  /\ limiters = << >>
  /\ reqAddr = [r \in Requests |-> NoAddr]
  /\ reqLimiter = [r \in Requests |-> 0]
  /\ now = 0

\* ------------------------------------------------------------------ loadDomains
\* The call: fresh locals (history variables of the pass are reset).
CallLoadDomains(caller) ==
  /\ ldPc' = "readdir" /\ ldCaller' = caller
  /\ ldFiles' = << >> /\ ldIdx' = 1
  /\ ldGen' = ldGen + 1
  /\ ldLoaded' = {} /\ ldMalformed' = {}
  /\ ldGood' = [d \in Domains |-> None]
  /\ ldResult' = None

\* What the caller does with loadDomains' result: main treats an error as
\* fatal, the watcher goroutine ignores it and selects again.
ReturnToCaller(err) ==
  IF ldCaller = "main"
    THEN /\ IF err THEN proc' = "fatal" /\ mainPc' = mainPc
                   ELSE proc' = proc /\ mainPc' = "goWatch"
         /\ loopPc' = loopPc
    ELSE /\ loopPc' = "select"
         /\ UNCHANGED << proc, mainPc >>

\* files, err := ioutil.ReadDir(directory); if err != nil { return err }
LdReadDir ==
  /\ Running /\ ldPc = "readdir"
  /\ \E ok \in BOOLEAN :
       IF ok
         THEN /\ ldFiles' = Listing(1)
              /\ ldPc' = "lock"
              /\ UNCHANGED << ldResult, proc, mainPc, loopPc >>
         ELSE /\ ldResult' = "err"
              /\ ldPc' = "idle"
              /\ ldFiles' = ldFiles
              /\ ReturnToCaller(TRUE)
  /\ UNCHANGED << fsVars, proxyMap, mutex, ldCaller, ldIdx, ldGen, ldLoaded,
                  ldMalformed, ldGood, wdPc, watcher, events, errors,
                  reqVars, poolVars, rlVars >>

\* mutex.Lock(), first half: the writer is announced.
LdLockRequest ==
  /\ Running /\ ldPc = "lock"
  /\ mutex' = [mutex EXCEPT !.pending = TRUE]
  /\ ldPc' = "locking"
  /\ UNCHANGED << proc, fsVars, proxyMap, mainPc, ldCaller, ldFiles, ldIdx, ldGen,
                  ldLoaded, ldMalformed, ldGood, ldResult, watchVars, reqVars, poolVars, rlVars >>

\* mutex.Lock(), second half: acquired when no reader holds the lock.
LdLockAcquire ==
  /\ Running /\ ldPc = "locking"
  /\ CanLock
  /\ mutex' = [mutex EXCEPT !.pending = FALSE, !.writer = TRUE]
  /\ ldPc' = "range"
  /\ UNCHANGED << proc, fsVars, proxyMap, mainPc, ldCaller, ldFiles, ldIdx, ldGen,
                  ldLoaded, ldMalformed, ldGood, ldResult, watchVars, reqVars, poolVars, rlVars >>

\* One iteration of the range loop over files (main.go 180-194).
LdFile ==
  /\ Running /\ ldPc = "range" /\ ldIdx <= Len(ldFiles)
  /\ LET i == ldFiles[ldIdx]
         domain == Base(i)
         cfg == IniLoad(files[i])
         backendURL == cfg.backend_url
     IN IF Ext(i) # ".conf"
          THEN UNCHANGED << proxyMap, ldLoaded, ldMalformed, ldGood >>
        ELSE IF cfg.err
          THEN /\ ldMalformed' = ldMalformed \cup {domain}
               /\ UNCHANGED << proxyMap, ldLoaded, ldGood >>
        ELSE /\ proxyMap' = [proxyMap EXCEPT ![domain] = newReverseProxy(backendURL, ldGen)]
             /\ ldLoaded' = ldLoaded \cup {domain}
             /\ ldMalformed' = IF UrlParse(backendURL).err
                                 THEN ldMalformed \cup {domain} ELSE ldMalformed
             /\ ldGood' = IF ~UrlParse(backendURL).err /\ backendURL # ""
                            THEN [ldGood EXCEPT ![domain] = backendURL] ELSE ldGood
  /\ ldIdx' = ldIdx + 1
  /\ UNCHANGED << proc, fsVars, mutex, mainPc, ldPc, ldCaller, ldFiles, ldGen,
                  ldResult, watchVars, reqVars, poolVars, rlVars >>

\* return nil, with the deferred mutex.Unlock().
LdReturn ==
  /\ Running /\ ldPc = "range" /\ ldIdx > Len(ldFiles)
  /\ mutex' = [mutex EXCEPT !.writer = FALSE]
  /\ ldResult' = "nil"
  /\ ldPc' = "idle"
  /\ ReturnToCaller(FALSE)
  /\ UNCHANGED << fsVars, proxyMap, ldCaller, ldFiles, ldIdx, ldGen, ldLoaded,
                  ldMalformed, ldGood, wdPc, watcher, events, errors,
                  reqVars, poolVars, rlVars >>

\* ------------------------------------------------------------------ main
\* err = loadDomains("./list_domain")
MainLoadDomains ==
  /\ Running /\ mainPc = "start"
  /\ mainPc' = "loading"
  /\ CallLoadDomains("main")
  /\ UNCHANGED << proc, fsVars, proxyMap, mutex, watchVars, reqVars, poolVars, rlVars >>

\* go watchDomains("./list_domain")
MainGoWatch ==
  /\ Running /\ mainPc = "goWatch"
  /\ wdPc' = "new"
  /\ mainPc' = "initPool"
  /\ UNCHANGED << proc, fsVars, proxyMap, mutex, ldVars, watcher, events, errors, loopPc, reqVars, poolVars, rlVars >>

\* initWorkerPool(100): the channel is made and the workers are started;
\* then the server is set up and listens.
initWorkerPool ==
  /\ Running /\ mainPc = "initPool"
  /\ workerPool' = << >>
  /\ wkPc' = [w \in Workers |-> "recv"]
  /\ mainPc' = "serve"
  /\ UNCHANGED << proc, fsVars, proxyMap, mutex, ldVars, watchVars, reqVars,
                  wkTask, lateWrites, rlVars >>

\* ------------------------------------------------------------------ file system
\* The environment changes ./list_domain; fsnotify queues an event when the
\* directory is being watched.
Notify(op) == IF watcher = "watching" THEN Append(events, op) ELSE events

\* A definition loadDomains can load and serve: ini.Load and url.Parse accept
\* it and backend_url is present.
WellFormed(c) ==
  /\ ~IniLoad(c).err
  /\ IniLoad(c).backend_url # ""
  /\ ~UrlParse(IniLoad(c).backend_url).err

\* History: file i now holds c (Absent when removed).
LateAdds(i, c) ==
  IF Ext(i) # ".conf" THEN lateAdds
  ELSE IF watcher \in {"watching", "closed"} /\ WellFormed(c) THEN lateAdds \cup {Base(i)}
  ELSE lateAdds \ {Base(i)}

FsCreate ==
  /\ Running /\ fsOps < MaxFsOps
  /\ \E i \in FileIdx : \E c \in ContentsOf(i) :
       /\ files[i] = Absent
       /\ files' = [files EXCEPT ![i] = c]
       /\ lateAdds' = LateAdds(i, c)
  /\ fsOps' = fsOps + 1
  /\ events' = Notify("Create")
  /\ UNCHANGED << proc, proxyMap, mutex, mainPc, ldVars, wdPc, watcher, errors, loopPc, reqVars, poolVars, rlVars >>

FsWrite ==
  /\ Running /\ fsOps < MaxFsOps
  /\ \E i \in FileIdx : \E c \in ContentsOf(i) :
       /\ files[i] # Absent /\ files[i] # c
       /\ files' = [files EXCEPT ![i] = c]
       /\ lateAdds' = LateAdds(i, c)
  /\ fsOps' = fsOps + 1
  /\ events' = Notify("Write")
  /\ UNCHANGED << proc, proxyMap, mutex, mainPc, ldVars, wdPc, watcher, errors, loopPc, reqVars, poolVars, rlVars >>

FsRemove ==
  /\ Running /\ fsOps < MaxFsOps
  /\ \E i \in FileIdx :
       /\ files[i] # Absent
       /\ files' = [files EXCEPT ![i] = Absent]
       /\ lateAdds' = LateAdds(i, Absent)
  /\ fsOps' = fsOps + 1
  /\ events' = Notify("Remove")
  /\ UNCHANGED << proc, proxyMap, mutex, mainPc, ldVars, wdPc, watcher, errors, loopPc, reqVars, poolVars, rlVars >>

FsChmod ==
  /\ Running /\ fsOps < MaxFsOps
  /\ \E i \in FileIdx : files[i] # Absent
  /\ fsOps' = fsOps + 1
  /\ events' = Notify("Chmod")
  /\ UNCHANGED << proc, files, lateAdds, proxyMap, mutex, mainPc, ldVars, wdPc,
                  watcher, errors, loopPc, reqVars, poolVars, rlVars >>

\* fsnotify reports an error on watcher.Errors.
WatchError ==
  /\ Running /\ watcher = "watching" /\ errors < MaxWatchErrors
  /\ errors' = errors + 1
  /\ UNCHANGED << proc, fsVars, proxyMap, mutex, mainPc, ldVars, wdPc, watcher,
                  events, loopPc, reqVars, poolVars, rlVars >>

\* ------------------------------------------------------------------ watchDomains
\* watcher, err := fsnotify.NewWatcher(); if err != nil { log.Fatal(err) }
WdNewWatcher ==
  /\ Running /\ wdPc = "new"
  /\ \E ok \in BOOLEAN :
       IF ok THEN watcher' = "open" /\ wdPc' = "go" /\ proc' = proc
             ELSE proc' = "fatal" /\ UNCHANGED << watcher, wdPc >>
  /\ UNCHANGED << fsVars, proxyMap, mutex, mainPc, ldVars, events, errors, loopPc, reqVars, poolVars, rlVars >>

\* go func() { for { select { ... } } }()
WdGo ==
  /\ Running /\ wdPc = "go"
  /\ loopPc' = "select"
  /\ wdPc' = "add"
  /\ UNCHANGED << proc, fsVars, proxyMap, mutex, mainPc, ldVars, watcher, events,
                  errors, reqVars, poolVars, rlVars >>

\* err = watcher.Add(directory); if err != nil { log.Fatal(err) }
WdAdd ==
  /\ Running /\ wdPc = "add"
  /\ \E ok \in BOOLEAN :
       IF ok THEN watcher' = "watching" /\ wdPc' = "return" /\ proc' = proc
             ELSE proc' = "fatal" /\ UNCHANGED << watcher, wdPc >>
  /\ UNCHANGED << fsVars, proxyMap, mutex, mainPc, ldVars, events, errors, loopPc, reqVars, poolVars, rlVars >>

\* watchDomains returns right after Add, and the deferred watcher.Close()
\* runs: both channels are closed; events not yet received may be dropped.
WdReturn ==
  /\ Running /\ wdPc = "return"
  /\ watcher' = "closed"
  /\ \E k \in 0..Len(events) : events' = SubSeq(events, 1, k)
  /\ \E n \in 0..errors : errors' = n
  /\ wdPc' = "done"
  /\ UNCHANGED << proc, fsVars, proxyMap, mutex, mainPc, ldVars, loopPc,
                  reqVars, poolVars, rlVars >>

\* event.Op has one of the bits Write, Create, Remove.
TriggersReload(op) == op \in {"Write", "Create", "Remove"}

\* case event, ok := <-watcher.Events: with ok
LoopEvent ==
  /\ Running /\ loopPc = "select" /\ events # << >>
  /\ events' = Tail(events)
  /\ IF TriggersReload(Head(events))
       THEN /\ loopPc' = "reloading"
            /\ CallLoadDomains("watcher")
       ELSE UNCHANGED << loopPc, ldVars >>
  /\ UNCHANGED << proc, fsVars, proxyMap, mutex, mainPc, wdPc, watcher, errors, reqVars, poolVars, rlVars >>

\* case err, ok := <-watcher.Errors: with ok; the error is logged.
LoopError ==
  /\ Running /\ loopPc = "select" /\ errors > 0
  /\ errors' = errors - 1
  /\ UNCHANGED << proc, fsVars, proxyMap, mutex, mainPc, ldVars, wdPc, watcher,
                  events, loopPc, reqVars, poolVars, rlVars >>

\* A receive on a closed, drained channel yields !ok: the goroutine returns.
LoopClosed ==
  /\ Running /\ loopPc = "select" /\ watcher = "closed"
  /\ events = << >> \/ errors = 0
  /\ loopPc' = "exited"
  /\ UNCHANGED << proc, fsVars, proxyMap, mutex, mainPc, ldVars, wdPc, watcher,
                  events, errors, reqVars, poolVars, rlVars >>

\* ------------------------------------------------------------------ rate limiting
\* net.SplitHostPort(r.RemoteAddr)
SplitHostPort(addr) ==
  IF Len(addr) = 2 THEN [ip |-> addr[1], err |-> FALSE]
                   ELSE [ip |-> "", err |-> TRUE]

\* rate.NewLimiter(rate.Limit(RequestsPerSecond), BurstLimit): a full bucket.
\* Tokens are counted in 1/TicksPerSecond of a token.
\* born is history: the time of creation.
NewLimiter_Empty(ip) == [ip |-> ip, tokens |-> 0, last |-> now, born |-> now]

NewLimiter(ip) ==
  [ip |-> ip, tokens |-> BurstLimit * TicksPerSecond, last |-> now, born |-> now]

Min(a, b) == IF a < b THEN a ELSE b

\* The bucket of lim at the present time: refilled at RequestsPerSecond since
\* lim.last, up to the burst.
Advance(lim) ==
  Min(BurstLimit * TicksPerSecond, lim.tokens + (now - lim.last) * RequestsPerSecond)

\* An Allow that grants without taking the token.
Debit_Lost(tokens) == tokens

\* Allow grants: one token leaves the bucket.
Debit(tokens) == tokens - TicksPerSecond

\* An Allow that empties the bucket when it denies.
AfterDenial_Drained(lim) == [lim EXCEPT !.tokens = 0, !.last = now]

\* Allow denies: the limiter is left as it was.
AfterDenial(lim) == lim

\* A lock that excludes nobody.
LimiterLockFree_NoExclusion == TRUE

\* limiterLock.Lock() can proceed.
LimiterLockFree == limiterLock = 0

\* A request arrives at rateLimitMiddleware: ip, _, err := net.SplitHostPort(r.RemoteAddr)
RlEnter(r) ==
  /\ Running /\ mainPc = "serve" /\ reqPc[r] = "idle"
  /\ \E addr \in RemoteAddrs, h \in Domains :
       /\ reqAddr' = [reqAddr EXCEPT ![r] = addr]
       /\ reqHost' = [reqHost EXCEPT ![r] = h]
       /\ reqTrace' = [reqTrace EXCEPT ![r] = Append(@, "rate")]
       /\ IF SplitHostPort(addr).err
            THEN /\ reqStatus' = [reqStatus EXCEPT ![r] = 500]
                 /\ reqPc' = [reqPc EXCEPT ![r] = "returned"]
            ELSE /\ reqStatus' = reqStatus
                 /\ reqPc' = [reqPc EXCEPT ![r] = "grl_lock"]
  /\ UNCHANGED << proc, fsVars, proxyMap, mutex, mainPc, ldVars, watchVars,
                  reqProxy, reqServed, poolVars, limiterLock, rateLimiter, limiters,
                  reqLimiter, now >>

\* getRateLimiter: limiterLock.Lock()
GrlLock(r) ==
  /\ Running /\ reqPc[r] = "grl_lock"
  /\ LimiterLockFree
  /\ limiterLock' = r
  /\ reqPc' = [reqPc EXCEPT ![r] = "grl_check"]
  /\ UNCHANGED << proc, fsVars, proxyMap, mutex, mainPc, ldVars, watchVars,
                  reqHost, reqProxy, reqStatus, reqTrace, reqServed, poolVars,
                  rateLimiter, limiters, reqAddr, reqLimiter, now >>

\* if limiter, exists := rateLimiter[ip]; exists { return limiter }
\* (the deferred limiterLock.Unlock() runs at the return)
GrlCheck(r) ==
  /\ Running /\ reqPc[r] = "grl_check"
  /\ LET ip == SplitHostPort(reqAddr[r]).ip IN
       IF rateLimiter[ip] # 0
         THEN /\ reqLimiter' = [reqLimiter EXCEPT ![r] = rateLimiter[ip]]
              /\ limiterLock' = 0
              /\ reqPc' = [reqPc EXCEPT ![r] = "allow"]
         ELSE /\ reqPc' = [reqPc EXCEPT ![r] = "grl_create"]
              /\ UNCHANGED << reqLimiter, limiterLock >>
  /\ UNCHANGED << proc, fsVars, proxyMap, mutex, mainPc, ldVars, watchVars,
                  reqHost, reqProxy, reqStatus, reqTrace, reqServed, poolVars,
                  rateLimiter, limiters, reqAddr, now >>

\* limiter := rate.NewLimiter(...); rateLimiter[ip] = limiter; return limiter
GrlCreate(r) ==
  /\ Running /\ reqPc[r] = "grl_create"
  /\ LET ip == SplitHostPort(reqAddr[r]).ip IN
       /\ limiters' = Append(limiters, NewLimiter(ip))
       /\ rateLimiter' = [rateLimiter EXCEPT ![ip] = Len(limiters) + 1]
       /\ reqLimiter' = [reqLimiter EXCEPT ![r] = Len(limiters) + 1]
  /\ limiterLock' = 0
  /\ reqPc' = [reqPc EXCEPT ![r] = "allow"]
  /\ UNCHANGED << proc, fsVars, proxyMap, mutex, mainPc, ldVars, watchVars,
                  reqHost, reqProxy, reqStatus, reqTrace, reqServed, poolVars,
                  reqAddr, now >>

\* if !limiter.Allow() { 429 }: Allow takes one token from the refilled
\* bucket if it holds one, and leaves the limiter alone otherwise.
RlAllow(r) ==
  /\ Running /\ reqPc[r] = "allow"
  /\ LET k == reqLimiter[r]
         tokens == Advance(limiters[k])
     IN IF tokens >= TicksPerSecond
          THEN /\ limiters' = [limiters EXCEPT ![k].tokens = Debit(tokens),
                                               ![k].last = now]
               /\ reqPc' = [reqPc EXCEPT ![r] = "filter"]
               /\ reqStatus' = reqStatus
          ELSE /\ reqStatus' = [reqStatus EXCEPT ![r] = 429]
               /\ reqPc' = [reqPc EXCEPT ![r] = "returned"]
               /\ limiters' = [limiters EXCEPT ![k] = AfterDenial(@)]
  /\ UNCHANGED << proc, fsVars, proxyMap, mutex, mainPc, ldVars, watchVars,
                  reqHost, reqProxy, reqTrace, reqServed, poolVars, limiterLock,
                  rateLimiter, reqAddr, reqLimiter, now >>

\* Time passes.
Tick ==
  /\ Running /\ now < MaxTime
  /\ now' = now + 1
  /\ UNCHANGED << proc, fsVars, proxyMap, mutex, mainPc, ldVars, watchVars,
                  reqVars, poolVars, limiterLock, rateLimiter, limiters, reqAddr,
                  reqLimiter >>

\* ------------------------------------------------------------------ ipFilterMiddleware
\* A filter that consults the whitelist before the blacklist.
FilterVerdict_WhitelistFirst(ip) ==
  IF ip \in Whitelist THEN 0
  ELSE IF ip \in Blacklist THEN 403
  ELSE 401

\* A filter that lets every client through that is not blacklisted.
FilterVerdict_Bypass(ip) == IF ip \in Blacklist THEN 403 ELSE 0

\* The status the filter rejects ip with, or 0 to pass the request on: the
\* blacklist loop runs first, then the whitelist loop.
FilterVerdict(ip) ==
  IF ip \in Blacklist THEN 403
  ELSE IF ip \notin Whitelist THEN 401
  ELSE 0

ipFilterMiddleware(r) ==
  /\ Running /\ reqPc[r] = "filter"
  /\ reqTrace' = [reqTrace EXCEPT ![r] = Append(@, "filter")]
  /\ LET split == SplitHostPort(reqAddr[r]) IN
       IF split.err
         THEN /\ reqStatus' = [reqStatus EXCEPT ![r] = 500]
              /\ reqPc' = [reqPc EXCEPT ![r] = "returned"]
       ELSE IF FilterVerdict(split.ip) # 0
         THEN /\ reqStatus' = [reqStatus EXCEPT ![r] = FilterVerdict(split.ip)]
              /\ reqPc' = [reqPc EXCEPT ![r] = "returned"]
       ELSE /\ reqStatus' = reqStatus
            /\ reqPc' = [reqPc EXCEPT ![r] = "size"]
  /\ UNCHANGED << proc, fsVars, proxyMap, mutex, mainPc, ldVars, watchVars,
                  reqHost, reqProxy, reqServed, poolVars, rlVars >>

\* r.Body = http.MaxBytesReader(...); next.ServeHTTP(w, r): proxyHandler starts.
limitRequestSizeMiddleware(r) ==
  /\ Running /\ reqPc[r] = "size"
  /\ reqPc' = [reqPc EXCEPT ![r] = "rlock"]
  /\ reqTrace' = [reqTrace EXCEPT ![r] = Append(@, "size")]
  /\ UNCHANGED << proc, fsVars, proxyMap, mutex, mainPc, ldVars, watchVars,
                  reqHost, reqProxy, reqStatus, reqServed, poolVars, rlVars >>

\* ------------------------------------------------------------------ proxyHandler
\* The middleware chain hands a request to proxyHandler; domain := r.Host
PhEnter(r) ==
  /\ Running /\ mainPc = "serve" /\ reqPc[r] = "idle"
  /\ \E h \in Domains : reqHost' = [reqHost EXCEPT ![r] = h]
  /\ reqPc' = [reqPc EXCEPT ![r] = "rlock"]
  /\ UNCHANGED << proc, fsVars, proxyMap, mutex, mainPc, ldVars, watchVars,
                  reqProxy, reqStatus, reqTrace, reqServed, poolVars, rlVars >>

\* mutex.RLock()
PhRLock(r) ==
  /\ Running /\ reqPc[r] = "rlock"
  /\ CanRLock
  /\ mutex' = [mutex EXCEPT !.readers = @ \cup {r}]
  /\ reqPc' = [reqPc EXCEPT ![r] = "read"]
  /\ UNCHANGED << proc, fsVars, proxyMap, mainPc, ldVars, watchVars, reqHost,
                  reqProxy, reqStatus, reqTrace, reqServed, poolVars, rlVars >>

\* proxy, exists := proxyMap[domain]
PhRead(r) ==
  /\ Running /\ reqPc[r] = "read"
  /\ reqProxy' = [reqProxy EXCEPT ![r] = proxyMap[reqHost[r]]]
  /\ reqPc' = [reqPc EXCEPT ![r] = "runlock"]
  /\ reqTrace' = [reqTrace EXCEPT ![r] = Append(@, "lookup")]
  /\ UNCHANGED << proc, fsVars, proxyMap, mutex, mainPc, ldVars, watchVars,
                  reqHost, reqStatus, reqServed, poolVars, rlVars >>

\* A dispatch that submits whatever the lookup returned.
DispatchTarget_AlwaysSubmit(proxy) == "submit"

\* if exists { ... } else { ... }
DispatchTarget(proxy) == IF proxy # Nil THEN "submit" ELSE "notfound"

\* mutex.RUnlock()
PhRUnlock(r) ==
  /\ Running /\ reqPc[r] = "runlock"
  /\ mutex' = [mutex EXCEPT !.readers = @ \ {r}]
  /\ reqPc' = [reqPc EXCEPT ![r] = DispatchTarget(reqProxy[r])]
  /\ UNCHANGED << proc, fsVars, proxyMap, mainPc, ldVars, watchVars, reqHost,
                  reqProxy, reqStatus, reqTrace, reqServed, poolVars, rlVars >>

\* A send that never blocks (as an unbounded queue would accept it).
CanSend_Unbounded == TRUE

\* The channel has room for one more task.
CanSend == Len(workerPool) < NumWorkers

\* workerPool <- func() { proxy.ServeHTTP(w, r) }
PhSubmit(r) ==
  /\ Running /\ reqPc[r] = "submit"
  /\ CanSend
  /\ workerPool' = Append(workerPool, [req |-> r, proxy |-> reqProxy[r]])
  /\ reqPc' = [reqPc EXCEPT ![r] = "return"]
  /\ reqTrace' = [reqTrace EXCEPT ![r] = Append(@, "submit")]
  /\ UNCHANGED << proc, fsVars, proxyMap, mutex, mainPc, ldVars, watchVars,
                  reqHost, reqProxy, reqStatus, reqServed, wkPc, wkTask, lateWrites,
                  rlVars >>

\* http.Error(w, "Domain not found", http.StatusNotFound)
PhNotFound(r) ==
  /\ Running /\ reqPc[r] = "notfound"
  /\ reqStatus' = [reqStatus EXCEPT ![r] = 404]
  /\ reqPc' = [reqPc EXCEPT ![r] = "return"]
  /\ reqTrace' = [reqTrace EXCEPT ![r] = Append(@, "notfound")]
  /\ UNCHANGED << proc, fsVars, proxyMap, mutex, mainPc, ldVars, watchVars,
                  reqHost, reqProxy, reqServed, poolVars, rlVars >>

\* proxyHandler returns, and with it the handlers that called it; the server
\* finishes the response.
HandlerReturn(r) ==
  /\ Running /\ reqPc[r] = "return"
  /\ reqPc' = [reqPc EXCEPT ![r] = "returned"]
  /\ UNCHANGED << proc, fsVars, proxyMap, mutex, mainPc, ldVars, watchVars,
                  reqHost, reqProxy, reqStatus, reqTrace, reqServed, poolVars, rlVars >>

\* ------------------------------------------------------------------ worker
\* for task := range workerPool
WorkerRecv(w) ==
  /\ Running /\ wkPc[w] = "recv" /\ workerPool # << >>
  /\ wkTask' = [wkTask EXCEPT ![w] = Head(workerPool)]
  /\ workerPool' = Tail(workerPool)
  /\ wkPc' = [wkPc EXCEPT ![w] = "run"]
  /\ UNCHANGED << proc, fsVars, proxyMap, mutex, mainPc, ldVars, watchVars,
                  reqVars, lateWrites, rlVars >>

\* The statuses proxy.ServeHTTP can relay for an entry: the backend's own, or
\* 502 from the ReverseProxy's error handler (backend unreachable; always so
\* when the URL has no scheme).
RelayStatuses(proxy) == IF proxy.url.Scheme = "" THEN {502} ELSE {200, 502}

\* A task that looks the entry up again when it runs.
TaskProxy_LateLookup(task) == proxyMap[reqHost[task.req]]

\* The entry the task forwards with: the proxy its closure captured.
TaskProxy(task) == task.proxy

\* task(): proxy.ServeHTTP(w, r).  The Director dereferences url: a nil url
\* panics in the worker goroutine, which nothing recovers, so the process dies.
WorkerRun(w) ==
  /\ Running /\ wkPc[w] = "run"
  /\ LET task == wkTask[w]
         proxy == TaskProxy(task)
     IN
       IF proxy.url = Nil
         THEN /\ proc' = "panic"
              /\ wkPc' = [v \in Workers |-> "dead"]
              /\ UNCHANGED << wkTask, reqStatus, reqServed, lateWrites >>
         ELSE /\ \E st \in RelayStatuses(proxy) :
                   IF reqPc[task.req] = "returned"
                     THEN /\ lateWrites' = lateWrites \cup {task.req}
                          /\ reqStatus' = reqStatus
                     ELSE /\ reqStatus' = [reqStatus EXCEPT ![task.req] = st]
                          /\ lateWrites' = lateWrites
              /\ reqServed' = [reqServed EXCEPT ![task.req] = proxy]
              /\ wkTask' = [wkTask EXCEPT ![w] = Nil]
              /\ wkPc' = [wkPc EXCEPT ![w] = "recv"]
              /\ proc' = proc
  /\ UNCHANGED << fsVars, proxyMap, mutex, mainPc, ldVars, watchVars, reqPc,
                  reqHost, reqProxy, reqTrace, workerPool, rlVars >>

\* ------------------------------------------------------------------ specification
\* The server with one request context, while the directory changes.
Next ==
  \/ MainLoadDomains \/ MainGoWatch \/ initWorkerPool
  \/ LdReadDir \/ LdLockRequest \/ LdLockAcquire \/ LdFile \/ LdReturn
  \/ FsCreate \/ FsWrite \/ FsRemove \/ FsChmod
  \/ WdNewWatcher \/ WdGo \/ WdAdd \/ WdReturn
  \/ LoopEvent \/ LoopClosed
  \/ \E r \in 1..NumLookups :
       \/ PhEnter(r) \/ PhRLock(r) \/ PhRead(r) \/ PhRUnlock(r)
       \/ PhSubmit(r) \/ PhNotFound(r) \/ HandlerReturn(r)
  \/ \E w \in Workers : WorkerRecv(w) \/ WorkerRun(w)

Spec == Init /\ [][Next]_vars

\* The loader and the watcher alone (no requests), with watcher errors.
ProgramWatch ==
  \/ MainLoadDomains \/ MainGoWatch \/ initWorkerPool
  \/ LdReadDir \/ LdLockRequest \/ LdLockAcquire \/ LdFile \/ LdReturn
  \/ WdNewWatcher \/ WdGo \/ WdAdd \/ WdReturn
  \/ LoopEvent \/ LoopError \/ LoopClosed

NextWatch ==
  \/ MainLoadDomains \/ MainGoWatch \/ initWorkerPool
  \/ LdReadDir \/ LdLockRequest \/ LdLockAcquire \/ LdFile \/ LdReturn
  \/ FsCreate \/ FsWrite \/ FsRemove \/ FsChmod \/ WatchError
  \/ WdNewWatcher \/ WdGo \/ WdAdd \/ WdReturn
  \/ LoopEvent \/ LoopError \/ LoopClosed

SpecWatch == Init /\ [][NextWatch]_vars

\* The Go scheduler runs every runnable goroutine: each step of the program
\* that stays enabled is eventually taken.  The file system is not obliged to
\* change.
FairWatch == Init /\ [][NextWatch]_vars /\ WF_vars(ProgramWatch)

\* The server with NumRequests request contexts against a quiet directory.
NextPool ==
  \/ MainLoadDomains \/ MainGoWatch \/ initWorkerPool
  \/ LdReadDir \/ LdLockRequest \/ LdLockAcquire \/ LdFile \/ LdReturn
  \/ WdNewWatcher \/ WdGo \/ WdAdd \/ WdReturn \/ LoopClosed
  \/ \E r \in Requests :
       \/ PhEnter(r) \/ PhRLock(r) \/ PhRead(r) \/ PhRUnlock(r)
       \/ PhSubmit(r) \/ PhNotFound(r) \/ HandlerReturn(r)
  \/ \E w \in Workers : WorkerRecv(w) \/ WorkerRun(w)

SpecPool == Init /\ [][NextPool]_vars

\* The steps of main, loadDomains and the watcher goroutines.
ProgramPool ==
  \/ MainLoadDomains \/ MainGoWatch \/ initWorkerPool
  \/ LdReadDir \/ LdLockRequest \/ LdLockAcquire \/ LdFile \/ LdReturn
  \/ WdNewWatcher \/ WdGo \/ WdAdd \/ WdReturn \/ LoopClosed

\* The steps of the goroutine that serves request r, once it has arrived.
HandlerStep(r) ==
  \/ PhRLock(r) \/ PhRead(r) \/ PhRUnlock(r)
  \/ PhSubmit(r) \/ PhNotFound(r) \/ HandlerReturn(r)

\* The steps of worker goroutine w.
WorkerStep(w) == WorkerRecv(w) \/ WorkerRun(w)

\* The Go scheduler runs every runnable goroutine: a handler, a worker or a
\* start-up step that stays enabled is eventually taken.  Clients are not
\* obliged to send requests.
FairPool ==
  /\ Init /\ [][NextPool]_vars
  /\ WF_vars(ProgramPool)
  /\ \A r \in Requests : WF_vars(HandlerStep(r))
  /\ \A w \in Workers : WF_vars(WorkerStep(w))

\* The server after startup (a.conf loaded, the watcher gone, the workers
\* started), with NumClients request contexts going through the handler chain.
InitServing ==
  /\ proc = "running"
  /\ files = [i \in FileIdx |-> IF i = 1 THEN GoodUrlText ELSE Absent]
  /\ fsOps = 0 /\ lateAdds = {}
  /\ proxyMap = [d \in Domains |-> IF d = "a" THEN newReverseProxy(GoodUrlText, 1) ELSE Nil]
  /\ mutex = [writer |-> FALSE, pending |-> FALSE, readers |-> {}]
  /\ mainPc = "serve"
  /\ ldPc = "idle" /\ ldCaller = "main" /\ ldFiles = << 1 >> /\ ldIdx = 2
  /\ ldGen = 1 /\ ldLoaded = {"a"} /\ ldMalformed = {}
  /\ ldGood = [d \in Domains |-> IF d = "a" THEN GoodUrlText ELSE None]
  /\ ldResult = "nil"
  /\ wdPc = "done" /\ watcher = "closed" /\ events = << >>
  /\ errors = 0 /\ loopPc = "exited"
  /\ reqPc = [r \in Requests |-> "idle"]
  /\ reqHost = [r \in Requests |-> None]
  /\ reqProxy = [r \in Requests |-> Nil]
  /\ reqStatus = [r \in Requests |-> 0]
  /\ reqTrace = [r \in Requests |-> << >>]
  /\ reqServed = [r \in Requests |-> Nil]
  /\ workerPool = << >>
  /\ wkPc = [w \in Workers |-> "recv"]
  /\ wkTask = [w \in Workers |-> Nil]
  /\ lateWrites = {}
  /\ limiterLock = 0
  /\ rateLimiter = [ip \in ClientIPs |-> 0]
  /\ limiters = << >>
  /\ reqAddr = [r \in Requests |-> NoAddr]
  /\ reqLimiter = [r \in Requests |-> 0]
  /\ now = 0

NextServe ==
  \/ Tick
  \/ \E r \in 1..NumClients :
       \/ RlEnter(r) \/ GrlLock(r) \/ GrlCheck(r) \/ GrlCreate(r) \/ RlAllow(r)
       \/ ipFilterMiddleware(r) \/ limitRequestSizeMiddleware(r)
       \/ PhRLock(r) \/ PhRead(r) \/ PhRUnlock(r)
       \/ PhSubmit(r) \/ PhNotFound(r) \/ HandlerReturn(r)
  \/ \E w \in Workers : WorkerRecv(w) \/ WorkerRun(w)

SpecServe == InitServing /\ [][NextServe]_vars

\* ------------------------------------------------------------------ claims
Table == {d \in Domains : proxyMap[d] # Nil}
\* A loadDomains pass has returned nil and none is running.
ReloadDone == ldPc = "idle" /\ ldResult = "nil"
\* The range loop still has a file to read and parse.
Parsing == ldPc = "range" /\ ldIdx <= Len(ldFiles)

\* C1: after a reload completes, the routing table holds exactly the domains
\* that reload loaded from the directory; a domain whose file is gone is no
\* longer in the table.
C1_TableIsSourceSet == ReloadDone => Table = ldLoaded

\* C2: a definition file added after startup, once watchDomains has set up
\* the watch, is eventually in the table (unless the file is changed again, a
\* reload fails to read the directory, or the process has ended).
C2_NewFileEventuallyServed ==
  \A d \in Domains :
    [](d \in lateAdds =>
         <>(d \in Table \/ d \notin lateAdds \/ ldResult = "err" \/ ~Running))

\* C3: once the watch is established the watcher stays alive: it is never
\* closed and the goroutine receiving its events never returns.
C3_WatcherStaysAlive == watcher # "closed" /\ loopPc # "exited"

\* C4: the table a lookup reads is the result of one reload generation: all
\* its entries were produced by the same loadDomains pass.
C4_OneGeneration ==
  \A r \in Requests :
    reqPc[r] = "read" =>
      \A d1, d2 \in Table : proxyMap[d1].gen = proxyMap[d2].gen

\* C5: a lookup that starts while loadDomains is reading or parsing files can
\* take the read lock: the write lock is not held (or requested) then.
C5_LookupNotBlockedByParsing ==
  \A r \in Requests : (reqPc[r] = "rlock" /\ Parsing) => CanRLock

\* C6: every entry of the routing table has a backend URL that parsed.
C6_EntriesParsed == \A d \in Table : proxyMap[d].url # Nil

\* C7: a reload over a directory with malformed files returns nil, has every
\* well-formed definition in the table, and has not loaded a malformed one.
C7_MalformedSkipped ==
  ReloadDone =>
    /\ ldMalformed \cap ldLoaded = {}
    /\ \A d \in Domains :
         ldGood[d] # None => (d \in Table /\ proxyMap[d].target = ldGood[d])

\* C8: no task, whatever its outcome, terminates a worker.
C8_WorkersSurvive == \A w \in Workers : wkPc[w] # "dead"

\* Tasks being executed by workers.
Executing == {w \in Workers : wkPc[w] = "run"}
\* The task a request's handler submits.
TaskOf(r) == [req |-> r, proxy |-> reqProxy[r]]

\* C9: at most NumWorkers tasks are queued and at most NumWorkers are being
\* executed; a submit made while the queue is full leaves the request blocked
\* at the send with its task intact; a submit that goes through appends that
\* request's task to the queue, and a task starts running only by a worker
\* taking it from the head of the queue.
C9_BoundedBlockingPool ==
  /\ [](Len(workerPool) <= NumWorkers /\ Cardinality(Executing) <= NumWorkers)
  /\ [][ /\ \A r \in Requests :
              /\ (reqPc[r] = "submit" /\ Len(workerPool) >= NumWorkers) =>
                    (reqPc'[r] = "submit" /\ reqProxy'[r] = reqProxy[r]
                       /\ reqStatus'[r] = reqStatus[r])
              /\ (reqPc[r] = "submit" /\ reqPc'[r] # "submit") =>
                    (reqPc'[r] = "return" /\ workerPool' = Append(workerPool, TaskOf(r)))
         /\ \A w \in Workers :
              (wkPc[w] # "run" /\ wkPc'[w] = "run") =>
                 (workerPool # << >> /\ wkTask'[w] = Head(workerPool)
                    /\ workerPool' = Tail(workerPool)) ]_vars

\* C9 witness: a request is blocked at the send: the queue is full and every
\* worker is running a task.
C9_SubmitBlocked ==
  \E r \in Requests :
    /\ reqPc[r] = "submit" /\ Len(workerPool) = NumWorkers
    /\ Executing = Workers

\* The limiter instances created for a client IP.
InstancesOf(ip) == {k \in 1..Len(limiters) : limiters[k].ip = ip}
ClientOf(r) == SplitHostPort(reqAddr[r]).ip

\* C10: at most one limiter instance is ever created for a client IP, every
\* getRateLimiter call for that IP returns the instance the map holds for it,
\* and the map never drops or replaces an instance.
C10_OneLimiterPerClient ==
  /\ [](/\ \A ip \in ClientIPs : Cardinality(InstancesOf(ip)) <= 1
        /\ \A r \in Requests :
             reqLimiter[r] # 0 =>
               /\ reqLimiter[r] = rateLimiter[ClientOf(r)]
               /\ limiters[reqLimiter[r]].ip = ClientOf(r))
  /\ [][\A ip \in ClientIPs :
          /\ rateLimiter[ip] # 0 => rateLimiter'[ip] = rateLimiter[ip]
          /\ \A k \in InstancesOf(ip) : k <= Len(limiters') /\ limiters'[k].ip = ip]_vars

\* C10 witness: two requests of one client were both given the one instance
\* created for it.
C10_SharedInstance ==
  \E r1, r2 \in Requests :
    /\ r1 # r2 /\ reqAddr[r1] # NoAddr /\ reqAddr[r2] # NoAddr
    /\ ClientOf(r1) = ClientOf(r2)
    /\ reqLimiter[r1] # 0 /\ reqLimiter[r1] = reqLimiter[r2]

\* ------------------------------------------------------------ token bucket

\* The requests Allow has granted, and those it has denied, on limiter k.
Allowed(k) ==
  {r \in Requests : reqLimiter[r] = k /\ reqPc[r] # "allow" /\ reqStatus[r] # 429}
Denied(k) == {r \in Requests : reqLimiter[r] = k /\ reqStatus[r] = 429}

\* The tokens limiter k has had available up to now: the initial burst and
\* the refill since its creation.
Supplied(k) ==
  BurstLimit * TicksPerSecond + (now - limiters[k].born) * RequestsPerSecond

\* C11: the token checks on one client's limiter are serialised: the requests
\* granted on a limiter never number more than the tokens it has had available,
\* the tokens left in the bucket included, so of two concurrent requests on a
\* bucket of one token at most one is granted and the other is answered 429.
C11_GrantsWithinTokens ==
  \A k \in 1..Len(limiters) :
    /\ limiters[k].tokens >= 0
    /\ Cardinality(Allowed(k)) * TicksPerSecond + limiters[k].tokens <= Supplied(k)

\* C11 witness: two requests of one client met a bucket of one token at the
\* same instant; one was granted and the other got 429.
C11_OneTokenTwoRequests ==
  \E r1, r2 \in Requests : \E k \in 1..Len(limiters) :
    /\ r1 \in Allowed(k) /\ r2 \in Denied(k)
    /\ limiters[k].last = now /\ limiters[k].tokens = 0
    /\ Supplied(k) = Cardinality(Allowed(k)) * TicksPerSecond

\* C12: a new client's bucket starts full: while no time has passed since the
\* limiter was created exactly the first BurstLimit requests are granted and
\* any further one is denied; a request is denied with 429 only when the
\* bucket, refill included, holds less than one token.
C12_BucketStartsFull ==
  /\ [](\A k \in 1..Len(limiters) :
          limiters[k].born = now =>
            /\ Cardinality(Allowed(k)) <= BurstLimit
            /\ Denied(k) # {} => Cardinality(Allowed(k)) = BurstLimit)
  /\ [][\A r \in Requests :
          (reqPc[r] = "allow" /\ reqPc'[r] # "allow") =>
            (reqStatus'[r] = 429 <=> Advance(limiters[reqLimiter[r]]) < TicksPerSecond)]_vars

\* C12 witness: with no time passed since the limiter was created, BurstLimit
\* requests were granted and the next one denied.
C12_BurstThenDenied ==
  \E k \in 1..Len(limiters) :
    /\ limiters[k].born = now
    /\ Cardinality(Allowed(k)) = BurstLimit
    /\ Denied(k) # {}

\* C13: a denied attempt leaves the bucket as it was: the step that answers
\* 429 changes no limiter, so a denial never delays the next grant.
C13_DenialLeavesBucket ==
  [][\A r \in Requests :
       (reqPc[r] = "allow" /\ reqStatus'[r] = 429) => limiters' = limiters]_vars

\* C13 witness: a request was denied and the bucket still carries the time of
\* its last grant, which is earlier than now.
C13_DeniedBucketKept ==
  \E k \in 1..Len(limiters) :
    /\ Denied(k) # {}
    /\ Allowed(k) # {}
    /\ limiters[k].last < now

\* ------------------------------------------------------------ handler chain

\* The stages of the chain main builds, outermost first.
Stages == << "rate", "filter", "size", "lookup" >>

Ran(r, stage) == \E i \in 1..Len(reqTrace[r]) : reqTrace[r][i] = stage
Finished(r) == reqPc[r] = "returned"

\* C14 as stated: every finished request of a blacklisted client was answered
\* 403.
C14_BlacklistedAlways403 ==
  \A r \in Requests :
    (Finished(r) /\ ClientOf(r) \in Blacklist) => reqStatus[r] = 403

\* C14: a request of a blacklisted client is never passed on, whether or not
\* the client is whitelisted: it is answered 403 by the filter unless the rate
\* limiter, which runs first, has already answered it 429.
C14_BlacklistedDenied ==
  \A r \in Requests :
    ClientOf(r) \in Blacklist =>
      /\ ~Ran(r, "size") /\ ~Ran(r, "lookup") /\ ~Ran(r, "submit")
      /\ Finished(r) =>
           /\ reqStatus[r] \in {403, 429}
           /\ reqStatus[r] = 403 <=> Ran(r, "filter")
           /\ reqStatus[r] = 429 <=> reqTrace[r] = << "rate" >>

\* C14 witness: a client on both lists was answered 403 by the filter.
C14_ListedTwice403 ==
  \E r \in Requests :
    /\ ClientOf(r) \in Blacklist \cap Whitelist
    /\ Finished(r) /\ reqStatus[r] = 403 /\ Ran(r, "filter")

\* C15: default deny: only requests of whitelisted, non-blacklisted clients
\* are passed on by the filter; a request of a client on neither list that
\* passed the rate limiter is answered 401 and reaches neither the lookup nor
\* the pool.
C15_DefaultDeny ==
  \A r \in Requests :
    /\ (Ran(r, "size") \/ reqPc[r] = "size") =>
         ClientOf(r) \in Whitelist \ Blacklist
    /\ (Ran(r, "filter") /\ ClientOf(r) \notin Whitelist \cup Blacklist) =>
         /\ Finished(r) /\ reqStatus[r] = 401
         /\ reqTrace[r] = << "rate", "filter" >>
         /\ reqProxy[r] = Nil /\ reqServed[r] = Nil
         /\ \A i \in 1..Len(workerPool) : workerPool[i].req # r
         /\ \A w \in Workers : wkTask[w] = Nil \/ wkTask[w].req # r

\* C15 witness: a client on neither list passed the rate limiter and was
\* answered 401.
C15_Unlisted401 ==
  \E r \in Requests :
    /\ reqAddr[r] # NoAddr /\ ~SplitHostPort(reqAddr[r]).err
    /\ ClientOf(r) \notin Whitelist \cup Blacklist
    /\ Finished(r) /\ reqStatus[r] = 401

\* The tasks of request r that are queued or running.
InFlight(r) ==
  Cardinality({i \in 1..Len(workerPool) : workerPool[i].req = r})
    + Cardinality({w \in Workers : wkTask[w] # Nil /\ wkTask[w].req = r})

\* C16: the stages run in the fixed order rate limiting, IP filtering, body
\* capping, dispatch; a request rejected with 500, 429, 403 or 401 stops at the
\* rejecting stage, with no lookup and no task; a request that reaches dispatch
\* gets 404 and no task if the lookup found no entry and submits exactly one
\* task otherwise.
C16_FixedOrder ==
  \A r \in Requests :
    LET t == reqTrace[r] IN
      /\ \/ \E n \in 0..Len(Stages) : t = SubSeq(Stages, 1, n)
         \/ t = Stages \o << "submit" >>
         \/ t = Stages \o << "notfound" >>
      /\ reqStatus[r] \in {500, 429} =>
           (Finished(r) /\ t = << "rate" >>)
      /\ reqStatus[r] \in {403, 401} =>
           (Finished(r) /\ t = << "rate", "filter" >>)
      /\ ~Ran(r, "submit") => (InFlight(r) = 0 /\ reqServed[r] = Nil)
      /\ ~Ran(r, "lookup") => reqProxy[r] = Nil
      /\ Ran(r, "notfound") => (reqProxy[r] = Nil /\ reqStatus[r] = 404)
      /\ Ran(r, "submit") =>
           /\ reqProxy[r] # Nil
           /\ InFlight(r) + (IF reqServed[r] # Nil THEN 1 ELSE 0) = 1
      /\ (Finished(r) /\ Ran(r, "lookup")) =>
           (Ran(r, "submit") \/ Ran(r, "notfound"))

\* C16 witness: one request went through every stage and submitted its task,
\* another was rejected by the filter and stopped there.
C16_PassedAndRejected ==
  \E r1, r2 \in Requests :
    /\ Finished(r1) /\ reqTrace[r1] = Stages \o << "submit" >>
    /\ Finished(r2) /\ reqStatus[r2] \in {403, 401}
    /\ reqTrace[r2] = << "rate", "filter" >>

\* ------------------------------------------------------------ limiter lock

\* The client of request r already has a limiter in the map.
Known(r) == ~SplitHostPort(reqAddr[r]).err /\ rateLimiter[ClientOf(r)] # 0

\* C17 as stated: a getRateLimiter call for a client that already has a
\* limiter neither holds the exclusive lock nor waits for it.
C17_LockOnlyOnCreation ==
  \A r \in Requests :
    Known(r) =>
      /\ limiterLock # r
      /\ reqPc[r] = "grl_lock" => limiterLock = 0

\* C17: getRateLimiter takes the exclusive lock on every call, for a client
\* that already has a limiter too: the check and the creation both run inside
\* the one critical section, one context at a time, and a call proceeds past
\* Lock only when the lock is free; the lock is released at the return and is
\* not held during Allow.
C17_LockOnEveryCall ==
  /\ [](\A r \in Requests :
          reqPc[r] \in {"grl_check", "grl_create"} <=> limiterLock = r)
  /\ [][\A r \in Requests :
          (reqPc[r] = "grl_lock" /\ reqPc'[r] # "grl_lock") =>
            (limiterLock = 0 /\ limiterLock' = r)]_vars

\* C17 witness: a call for a client that already has a limiter holds the
\* exclusive lock while it looks the limiter up.
C17_KnownClientLocks ==
  \E r \in Requests :
    /\ limiterLock = r /\ reqPc[r] = "grl_check" /\ Known(r)

\* ------------------------------------------------------------ tasks

\* C18: each handler stays active until its forwarding task has finished:
\* no handler has returned while its task is queued or running, and no task
\* writes to the response of a handler that has returned.
C18_HandlerOutlivesTask ==
  /\ \A r \in Requests : Finished(r) => InFlight(r) = 0
  /\ lateWrites = {}

\* Request r has a task waiting in the channel.
Queued(r) == \E i \in 1..Len(workerPool) : workerPool[i].req = r

\* C19: a worker runs one task at a time, a submitted task is taken by one
\* worker and executed once, and, the scheduler being fair, every queued task
\* is eventually taken by a worker and every blocked submit eventually
\* completes, unless the process could not start its watcher.
C19_EveryTaskRuns ==
  /\ [](\A r \in Requests : InFlight(r) + (IF reqServed[r] # Nil THEN 1 ELSE 0) <= 1)
  /\ \A r \in Requests :
       (Queued(r) \/ reqPc[r] = "submit") ~>
         ((~Queued(r) /\ reqPc[r] # "submit") \/ proc = "fatal")

\* C20: a task forwards with the entry its handler captured at lookup, also
\* when a reload has replaced the table's entry since; a step that changes the
\* table changes no queued or running task and no captured entry, and a
\* request whose task is in flight holds no read lock the reload would wait
\* for.
C20_TaskKeepsCapturedEntry ==
  /\ [](\A r \in Requests :
          /\ reqServed[r] # Nil => reqServed[r] = reqProxy[r]
          /\ InFlight(r) > 0 => r \notin mutex.readers)
  /\ [][proxyMap' # proxyMap =>
          UNCHANGED << workerPool, wkTask, reqProxy, reqServed >>]_vars

\* C20 witness: a task forwarded with the entry captured at lookup although a
\* reload had by then put a newer entry for the host into the table.
C20_ServedReplacedEntry ==
  \E r \in Requests :
    /\ reqServed[r] # Nil
    /\ proxyMap[reqHost[r]] # Nil
    /\ proxyMap[reqHost[r]] # reqServed[r]
    /\ reqStatus[r] = 200

====
